---- MODULE Spec2Model ----
(***************************************************************************)
(* Model of the job-queue processing and deduplication lifecycle of        *)
(* index.js: the two persisted documents (jobs.json, jobQueue.json), the   *)
(* queue processor processJobQueue, and the two cycle orchestrators        *)
(* initialStartupRun and runJobApplicationCycle driven by main.             *)
(*                                                                         *)
(* Strings are tuples of one-character strings, so that toLowerCase and    *)
(* String.includes are computed character by character.  A missing         *)
(* (undefined / null / empty) string field is the empty tuple, which is    *)
(* falsy exactly like the JavaScript values it stands for.                 *)
(***************************************************************************)
EXTENDS Integers, Sequences, FiniteSets, TLC

\* ------------------------------------------------------------------ bounds

\* Send attempts after which the ordinary specification stops attempting.
MaxAttempts == 8
\* Send attempts after which the long-queue specification stops attempting.
MaxAttemptsLong == 14
\* Number of scheduled (cron) triggers explored after the startup run.
MaxTriggers == 3
\* Send attempts after which the overlap specification stops attempting.
MaxAttemptsOverlap == 4
\* Send attempts after which the failing-write specification stops attempting.
MaxAttemptsFault == 4
\* Send attempts after which the ranking specification stops attempting.
MaxAttemptsRank == 3
MaxAttemptsLive == 40
MaxAttemptsBoot == 4

\* --------------------------------------------------------------- constants

MAX_EMAILS_PER_RUN == 12
EMAIL_INTERVAL_MS == 5 * 60 * 1000
\* One hour, the period the rate limit of 12 emails is stated for.
HOUR_MS == 12 * EMAIL_INTERVAL_MS

\* ----------------------------------------------------------------- strings

UpperChars == <<"A","B","C","D","E","F","G","H","I","J","K","L","M",
                "N","O","P","Q","R","S","T","U","V","W","X","Y","Z">>
LowerChars == <<"a","b","c","d","e","f","g","h","i","j","k","l","m",
                "n","o","p","q","r","s","t","u","v","w","x","y","z">>

\* The lower-case letter of each capital; other characters stay.
LowerOfUpper ==
  [c \in {UpperChars[k] : k \in DOMAIN UpperChars} |->
     LowerChars[CHOOSE k \in DOMAIN UpperChars : UpperChars[k] = c]]

LowerChar(c) == IF c \in DOMAIN LowerOfUpper THEN LowerOfUpper[c] ELSE c

\* String.prototype.toLowerCase
toLowerCase(s) == [i \in DOMAIN s |-> LowerChar(s[i])]

\* String.prototype.includes
includes(s, sub) ==
  \E i \in 0..(Len(s) - Len(sub)) : SubSeq(s, i + 1, i + Len(sub)) = sub

\* Array.prototype.includes on an array of strings
arrayIncludes(arr, s) == \E i \in DOMAIN arr : arr[i] = s

\* slice without the cut: the whole array.
slice_NoCut(arr, end) == arr

\* Array.prototype.slice(0, end)
slice(arr, end) == SubSeq(arr, 1, IF end < Len(arr) THEN end ELSE Len(arr))

\* JavaScript truthiness of a string-or-missing field
Truthy(s) == s # <<>>

\* (emailBody || '').replace(/\\n/g, '\n'): every backslash followed by n
\* becomes one newline character, scanning left to right.
RECURSIVE unescapeBody(_)
unescapeBody(s) ==
  IF Len(s) = 0 THEN <<>>
  ELSE IF Len(s) >= 2 /\ s[1] = "\\" /\ s[2] = "n"
    THEN <<"\n">> \o unescapeBody(SubSeq(s, 3, Len(s)))
    ELSE <<s[1]>> \o unescapeBody(Tail(s))

\* ------------------------------------------------------- discovered listings

Space == <<" ">>
W_remote == <<"r","e","m","o","t","e">>
W_hybrid == <<"h","y","b","r","i","d">>
W_onsite == <<"o","n","s","i","t","e">>
W_foreign == <<"f","o","r","e","i","g","n">>
W_international == <<"i","n","t","e","r","n","a","t","i","o","n","a","l">>
W_startup == <<"s","t","a","r","t","u","p">>
W_seriesA == <<"s","e","r","i","e","s"," ","a">>
W_seriesB == <<"s","e","r","i","e","s"," ","b">>
W_seriesC == <<"s","e","r","i","e","s"," ","c">>

\* The fields of a listing that the program reads.
Listing(company, hrEmail, dmEmail, emailBody, workType, companyType, isFamous, fundingStage, role) ==
  [company |-> company, hrEmail |-> hrEmail, decisionMakerEmail |-> dmEmail,
   emailBody |-> emailBody, workType |-> workType, companyType |-> companyType,
   isFamous |-> isFamous, fundingStage |-> fundingStage,
   role |-> role, snippet |-> <<"a","p","i">>, requirements |-> <<>>]

\* Listings 1..5 differ in the ways the program distinguishes; listings
\* 6.. are uniform listings of further companies, used for long queues.
NumListings == 19

\* What a listing is scored on apart from its workType.
ScoreBases ==
  << [company |-> <<"S","a">>, companyType |-> <<>>, isFamous |-> FALSE,
      fundingStage |-> <<>>, role |-> <<"c">>],
     [company |-> <<"S","b">>, companyType |-> W_foreign \o <<"_">> \o W_startup,
      isFamous |-> TRUE, fundingStage |-> <<"S","e","r","i","e","s"," ","B">>,
      role |-> <<"G","o">>],
     [company |-> <<"S","c">>, companyType |-> W_international, isFamous |-> FALSE,
      fundingStage |-> W_seriesA, role |-> <<"s","q","l"," ","R","u","s","t">>],
     [company |-> <<"S","d">>, companyType |-> W_startup, isFamous |-> TRUE,
      fundingStage |-> <<"s","e","e","d">>, role |-> <<"n","o","d","e">>] >>

\* The workType values the score distinguishes, in two spellings.
WorkTypes ==
  << <<W_remote, W_hybrid, W_onsite>>,
     << <<"R","e","m","o","t","e">>, <<"H","Y","B","R","I","D">>, <<"O","n","S","i","t","e">> >> >>

\* Listings beyond the uniform ones: for each score base three listings that
\* differ in workType alone (remote, hybrid, onsite), then a listing that
\* scores nothing, then MAX_EMAILS_PER_RUN listings without an email body.
VariantId(b, w) == NumListings + 3 * (b - 1) + w
ZeroId == NumListings + 3 * Len(ScoreBases) + 1
PoisonId(k) == ZeroId + k
NumCatalog == ZeroId + MAX_EMAILS_PER_RUN

ExtraListing(id) ==
  IF id < ZeroId
    THEN LET b == ((id - NumListings - 1) \div 3) + 1
             w == ((id - NumListings - 1) % 3) + 1
             base == ScoreBases[b]
         IN  Listing(base.company, <<"h", "@">> \o toLowerCase(base.company), <<>>,
                     <<"H","i">>,
                     WorkTypes[((b - 1) % 2) + 1][w], base.companyType, base.isFamous,
                     base.fundingStage, base.role)
  ELSE IF id = ZeroId
    THEN Listing(<<"Z","o">>, <<"z","@","z">>, <<>>, <<"H","i">>,
                 <<"c","o","n","t","r","a","c","t">>, <<>>, FALSE, <<>>, <<"c">>)
    ELSE Listing(<<"P", LowerChars[id - ZeroId]>>, <<LowerChars[id - ZeroId], "@", "p">>, <<>>,
                 <<>>,
                 W_remote, <<>>, FALSE, <<>>, <<"g","o">>)

Catalog ==
  [id \in 1..NumCatalog |->
    CASE id > NumListings -> ExtraListing(id)
      [] id = 1 -> Listing(<<"A","c">>, <<"h","1","@","x">>, <<>>,
                           <<"H","i","\\","n","y","o","u">>,
                           W_remote, W_foreign \o <<"_">> \o W_startup, FALSE,
                           <<"S","e","r","i","e","s"," ","B">>, <<"G","o">>)
      [] id = 2 -> Listing(<<"B","o">>, <<"H","2","@","x">>, <<"d","2","@","x">>,
                           <<"H","i">>,
                           <<"H","y","b","r","i","d">>, <<"m","n","c">>, TRUE,
                           <<>>, <<"s","q","l">>)
      [] id = 3 -> Listing(<<"a","C">>, <<>>, <<>>,
                           <<"H","i">>,
                           W_onsite, W_startup, FALSE,
                           W_seriesA, <<"n","o","d","e">>)
      [] id = 4 -> Listing(<<"C","y">>, <<"h","4","@","x">>, <<>>,
                           <<>>,
                           <<>>, W_international, FALSE,
                           <<"s","e","e","d">>, <<"g","o">>)
      [] id = 5 -> Listing(<<"D","x">>, <<"H","1","@","X">>, <<"d","5","@","x">>,
                           <<"\\","n">>,
                           <<"R","E","M","O","T","E">>, <<>>, FALSE,
                           W_seriesC, <<"c">>)
      [] OTHER  -> Listing(<<"K", LowerChars[id]>>, <<LowerChars[id], "@", "k">>, <<>>,
                           <<"H","i">>,
                           W_remote, <<>>, FALSE,
                           <<>>, <<"g","o">>)]

\* The candidate profile a discovery response carries; NoProfile is null
\* (and, where the code reads profile || {}, an object without skills).
NoSkills == [programmingLanguages |-> <<>>, frameworks |-> <<>>, databases |-> <<>>,
             tools |-> <<>>, other |-> <<>>]
NoProfile == [name |-> <<>>, skills |-> NoSkills, present |-> FALSE]
\* A profile without a skills object.
Profile0 == [name |-> <<"A","n">>, skills |-> NoSkills, present |-> TRUE]
Profile1 == [name |-> <<"A","n">>,
             skills |-> [NoSkills EXCEPT !.programmingLanguages = << <<"G","o">> >>,
                                         !.databases = << <<"S","Q","L">> >>,
                                         !.other = << <<"r","u","s","t">> >>],
             present |-> TRUE]

\* ------------------------------------------------------------------ ranking

RECURSIVE matchedSkills(_, _)
matchedSkills(jobDescription, allSkills) ==
  IF allSkills = <<>> THEN 0
  ELSE (IF includes(jobDescription, toLowerCase(Head(allSkills))) THEN 1 ELSE 0)
       + matchedSkills(jobDescription, Tail(allSkills))

\* Mutant: hybrid is worth as much as remote.
scoreJob_HybridAsRemote(job, profile) ==
  LET allSkills == profile.skills.programmingLanguages \o profile.skills.frameworks
                   \o profile.skills.databases \o profile.skills.tools
                   \o profile.skills.other
      workType == toLowerCase(job.workType)
      companyType == toLowerCase(job.companyType)
      jobDescription ==
        toLowerCase(job.role \o Space \o job.snippet \o Space \o job.requirements)
      funding == toLowerCase(job.fundingStage)
  IN  (IF workType = W_remote \/ workType = W_hybrid THEN 100
       ELSE IF workType = W_onsite THEN 10 ELSE 0)
    + (IF includes(companyType, W_foreign) \/ includes(companyType, W_international)
         THEN 40 ELSE 0)
    + (IF includes(companyType, W_startup) THEN 30 ELSE 0)
    + (IF job.isFamous THEN 25 ELSE 0)
    + matchedSkills(jobDescription, allSkills) * 15
    + (IF includes(funding, W_seriesB) \/ includes(funding, W_seriesC) THEN 20
       ELSE IF includes(funding, W_seriesA) THEN 15 ELSE 0)

scoreJob(job, profile) ==
  LET allSkills == profile.skills.programmingLanguages \o profile.skills.frameworks
                   \o profile.skills.databases \o profile.skills.tools
                   \o profile.skills.other
      workType == toLowerCase(job.workType)
      companyType == toLowerCase(job.companyType)
      jobDescription ==
        toLowerCase(job.role \o Space \o job.snippet \o Space \o job.requirements)
      funding == toLowerCase(job.fundingStage)
  IN  (IF workType = W_remote THEN 100
       ELSE IF workType = W_hybrid THEN 50
       ELSE IF workType = W_onsite THEN 10 ELSE 0)
    + (IF includes(companyType, W_foreign) \/ includes(companyType, W_international)
         THEN 40 ELSE 0)
    + (IF includes(companyType, W_startup) THEN 30 ELSE 0)
    + (IF job.isFamous THEN 25 ELSE 0)
    + matchedSkills(jobDescription, allSkills) * 15
    + (IF includes(funding, W_seriesB) \/ includes(funding, W_seriesC) THEN 20
       ELSE IF includes(funding, W_seriesA) THEN 15 ELSE 0)

\* A queue entry: the listing (by catalog number) with the score attached
\* to it before it was enqueued.
Entry(id, profile) == [id |-> id, score |-> scoreJob(Catalog[id], profile)]

\* jobs.sort((a, b) => b.score - a.score): stable, descending by score.
RECURSIVE insertByScore(_, _)
insertByScore(sorted, e) ==
  IF sorted = <<>> THEN <<e>>
  ELSE IF Head(sorted).score >= e.score
    THEN <<Head(sorted)>> \o insertByScore(Tail(sorted), e)
    ELSE <<e>> \o sorted

RECURSIVE sortByScore(_)
sortByScore(jobs) ==
  IF jobs = <<>> THEN <<>>
  ELSE insertByScore(sortByScore(SubSeq(jobs, 1, Len(jobs) - 1)), jobs[Len(jobs)])

\* Mutant: listings that score nothing are dropped.
rankJobs_DropsZero(ids, profile) ==
  SelectSeq(sortByScore([i \in DOMAIN ids |-> Entry(ids[i], profile)]),
            LAMBDA e : e.score > 0)

\* jobs.map(job => ({...job, score})) followed by the sort
rankJobs(ids, profile) == sortByScore([i \in DOMAIN ids |-> Entry(ids[i], profile)])

\* Field access of a queue entry or history record
companyOf(e) == Catalog[e.id].company
hrEmailOf(e) == Catalog[e.id].hrEmail
dmEmailOf(e) == Catalog[e.id].decisionMakerEmail

\* --------------------------------------------------------- persistent store

\* A file is either missing or holds a document.  JSON.stringify followed by
\* JSON.parse returns the document it was given: the documents hold only
\* strings, numbers and booleans, and a missing field stays falsy.
EmptyDb == [jobs |-> <<>>, sentEmails |-> <<>>, sentCompanies |-> <<>>]
NoJobsFile == [exists |-> FALSE, content |-> EmptyDb]
NoQueueFile == [exists |-> FALSE, content |-> <<>>]
FileOf(doc) == [exists |-> TRUE, content |-> doc]

\* Mutant: the read always takes the catch branch.
loadJobsDb_AlwaysDefault(file) == EmptyDb
loadJobsDb(file) == IF file.exists THEN file.content ELSE EmptyDb
saveJobsDb(db) == FileOf(db)
loadQueue(file) == IF file.exists THEN file.content ELSE <<>>
saveQueue(queue) == FileOf(queue)

\* queue.push(...jobs)
addJobsToQueue(queue, jobs) == queue \o jobs

\* Mutant: slice in place of splice, which leaves the array as it was.
removeJobFromQueue_NoSplice(queue, jobIndex) == queue

\* queue.splice(jobIndex, 1) when the index is in range (jobIndex counts
\* from 0), otherwise the queue is not written.
removeJobFromQueue(queue, jobIndex) ==
  IF jobIndex >= 0 /\ jobIndex < Len(queue)
    THEN SubSeq(queue, 1, jobIndex) \o SubSeq(queue, jobIndex + 2, Len(queue))
    ELSE queue

getQueueSize(file) == Len(loadQueue(file))

\* Mutants: the lookups without lower-casing their argument.
isEmailSent_NoLower(db, email) == arrayIncludes(db.sentEmails, email)
isCompanySent_NoLower(db, company) == arrayIncludes(db.sentCompanies, company)

isEmailSent(db, email) == arrayIncludes(db.sentEmails, toLowerCase(email))
isCompanySent(db, company) == arrayIncludes(db.sentCompanies, toLowerCase(company))

HistoryRecord(job, status, errorMessage) ==
  [id |-> job.id, score |-> job.score, status |-> status, errorMessage |-> errorMessage]

\* Mutant: the history is replaced by the new record.
markJobSent_Overwrite(db, job) ==
  [jobs |-> <<HistoryRecord(job, "sent", "")>>,
   sentEmails |-> db.sentEmails
        \o (IF Truthy(hrEmailOf(job)) THEN <<toLowerCase(hrEmailOf(job))>> ELSE <<>>)
        \o (IF Truthy(dmEmailOf(job)) THEN <<toLowerCase(dmEmailOf(job))>> ELSE <<>>),
   sentCompanies |-> Append(db.sentCompanies, toLowerCase(companyOf(job)))]

\* Mutant: only the HR email is recorded.
markJobSent_HrOnly(db, job) ==
  [jobs |-> Append(db.jobs, HistoryRecord(job, "sent", "")),
   sentEmails |-> db.sentEmails
        \o (IF Truthy(hrEmailOf(job)) THEN <<toLowerCase(hrEmailOf(job))>> ELSE <<>>),
   sentCompanies |-> Append(db.sentCompanies, toLowerCase(companyOf(job)))]

markJobSent(db, job) ==
  [jobs |-> Append(db.jobs, HistoryRecord(job, "sent", "")),
   sentEmails |-> db.sentEmails
        \o (IF Truthy(hrEmailOf(job)) THEN <<toLowerCase(hrEmailOf(job))>> ELSE <<>>)
        \o (IF Truthy(dmEmailOf(job)) THEN <<toLowerCase(dmEmailOf(job))>> ELSE <<>>),
   sentCompanies |-> Append(db.sentCompanies, toLowerCase(companyOf(job)))]

\* Mutant: the failed branch records the emails as the sent branch does.
markJobFailed_WithEmails(db, job, errorMessage) ==
  [jobs |-> Append(db.jobs, HistoryRecord(job, "failed", errorMessage)),
   sentEmails |-> db.sentEmails
        \o (IF Truthy(hrEmailOf(job)) THEN <<toLowerCase(hrEmailOf(job))>> ELSE <<>>)
        \o (IF Truthy(dmEmailOf(job)) THEN <<toLowerCase(dmEmailOf(job))>> ELSE <<>>),
   sentCompanies |-> Append(db.sentCompanies, toLowerCase(companyOf(job)))]

\* Mutant: the failed record is put in front of the history (unshift).
markJobFailed_Unshift(db, job, errorMessage) ==
  [jobs |-> <<HistoryRecord(job, "failed", errorMessage)>> \o db.jobs,
   sentEmails |-> db.sentEmails,
   sentCompanies |-> Append(db.sentCompanies, toLowerCase(companyOf(job)))]

markJobFailed(db, job, errorMessage) ==
  [jobs |-> Append(db.jobs, HistoryRecord(job, "failed", errorMessage)),
   sentEmails |-> db.sentEmails,
   sentCompanies |-> Append(db.sentCompanies, toLowerCase(companyOf(job)))]

\* ---------------------------------------------------------------- sendEmail

\* const recipients = [job.hrEmail]; push decisionMakerEmail when present
recipientsOf(job) ==
  <<hrEmailOf(job)>> \o (IF Truthy(dmEmailOf(job)) THEN <<dmEmailOf(job)>> ELSE <<>>)

\* Mutant: the recipients are taken as they are.
toListOf_NoFilter(recipients) == recipients

\* recipients.filter(Boolean)
toListOf(recipients) == SelectSeq(recipients, Truthy)

\* What is thrown before the transport is reached: "" when nothing is.
localError(job) ==
  IF ~Truthy(unescapeBody(Catalog[job.id].emailBody)) THEN "No email body generated"
  ELSE IF Len(toListOf(recipientsOf(job))) = 0 THEN "No valid recipients"
  ELSE ""

\* The message of an error the transport rejects with.
TransportError == "SMTP error"

\* -------------------------------------------------------------------- state

VARIABLES
  jobsFile,     \* jobs.json
  queueFile,    \* jobQueue.json
  mainPc,       \* where main() is
  inv,          \* per invocation of a cycle: its position and local variables
  triggers,     \* scheduled triggers fired so far
  attempts,     \* every send attempt made so far, in order, with its outcome
  ages          \* the send attempts started less than an hour ago, with their age

vars == <<jobsFile, queueFile, mainPc, inv, triggers, attempts, ages>>

\* Invocation slots: overlapping cycles need two.
Procs == {1, 2}

\* The local variables of an invocation that is not running.  Indices count
\* from 1: i is the position in jobsToProcess of the job being attempted,
\* k the position in jobs of the listing being filtered.
Idle ==
  [pc |-> "idle", mode |-> "none", profile |-> NoProfile, jobs |-> <<>>,
   call |-> 0, clearAll |-> FALSE, queueSize |-> 0, queue |-> <<>>,
   jobsToProcess |-> <<>>, i |-> 0, sentCount |-> 0, failedCount |-> 0,
   error |-> "", db |-> EmptyDb, q |-> <<>>, newJobs |-> <<>>, k |-> 0,
   hrEmailSent |-> FALSE, wake |-> 0]

\* ------------------------------------------------------------ control flow

\* Invocation p continues with the local variables l2.  When the startup run
\* returns, main registers the cron triggers in the same turn.
Continue(p, l2) ==
  /\ inv' = [inv EXCEPT ![p] = l2]
  /\ mainPc' = IF l2.pc = "idle" /\ inv[p].mode = "startup" THEN "scheduled" ELSE mainPc

\* afterItem without the delay: the next iteration starts at once.
afterItem_NoDelay(l) ==
  IF l.i < Len(l.jobsToProcess)
    THEN [l EXCEPT !.pc = "send", !.i = @ + 1]
    ELSE [l EXCEPT !.pc = "pqReturn"]

\* if (i < jobsToProcess.length - 1) delay; then the next iteration, or the
\* end of the loop and the return of sentCount.
afterItem(l) ==
  IF l.i < Len(l.jobsToProcess)
    THEN [l EXCEPT !.pc = "delay", !.wake = EMAIL_INTERVAL_MS]
    ELSE [l EXCEPT !.pc = "pqReturn"]

\* What follows the first queue run of a cycle: with nothing discovered the
\* cycle ends (the startup run after reading its statistics), otherwise the
\* filter loop starts.
afterFirstRun(l) ==
  IF Len(l.jobs) = 0
    THEN Idle
    ELSE [l EXCEPT !.pc = "filterEmail", !.k = 1, !.newJobs = <<>>]

\* callProcessJobQueue with clearAll left at its default of false.
callProcessJobQueue_Bounded(l, c) ==
  [l EXCEPT !.pc = "pqSize", !.call = c, !.clearAll = FALSE]

\* The entry of processJobQueue from call site c of the cycle.
callProcessJobQueue(l, c) ==
  [l EXCEPT !.pc = "pqSize", !.call = c, !.clearAll = (l.mode = "startup")]

\* ------------------------------------------------------------------ actions

\* main: await verifySetup().  A failed check ends the process; otherwise
\* jobs.json is created when it is missing.
VerifySetup ==
  /\ mainPc = "verifySetup"
  /\ \E ok \in BOOLEAN :
       IF ok
         THEN /\ mainPc' = "startup"
              /\ jobsFile' = IF jobsFile.exists THEN jobsFile ELSE saveJobsDb(EmptyDb)
         ELSE /\ mainPc' = "exited"
              /\ jobsFile' = jobsFile
  /\ UNCHANGED <<queueFile, inv, triggers, attempts, ages>>

\* Mutant: the startup run is not awaited; the triggers are registered while
\* it runs.
StartupRun_NoAwait ==
  /\ mainPc = "startup"
  /\ mainPc' = "scheduled"
  /\ inv' = [inv EXCEPT ![1] = [Idle EXCEPT !.pc = "upload", !.mode = "startup"]]
  /\ UNCHANGED <<jobsFile, queueFile, triggers, attempts, ages>>

\* main: await initialStartupRun()
StartupRun ==
  /\ mainPc = "startup"
  /\ mainPc' = "startupRunning"
  /\ inv' = [inv EXCEPT ![1] = [Idle EXCEPT !.pc = "upload", !.mode = "startup"]]
  /\ UNCHANGED <<jobsFile, queueFile, triggers, attempts, ages>>

\* A cron trigger calls runJobApplicationCycle.  Nothing in the code keeps a
\* trigger from firing while an earlier cycle runs; overlap says whether the
\* specification explores that.  The triggers of the schedule (11:00, 14:00,
\* 17:00, 21:00) are three hours or more apart, so that a trigger which
\* follows a scheduled cycle that has ended comes more than an hour after that
\* cycle's last attempt; the first trigger may follow the startup run at once.
Trigger(p, overlap) ==
  /\ mainPc = "scheduled"
  /\ triggers < MaxTriggers
  /\ inv[p].pc = "idle"
  /\ overlap \/ \A q \in Procs : inv[q].pc = "idle"
  /\ triggers' = triggers + 1
  /\ inv' = [inv EXCEPT ![p] = [Idle EXCEPT !.pc = "upload", !.mode = "scheduled"]]
  /\ ages' = IF triggers > 0 /\ \A q \in Procs : inv[q].pc = "idle" THEN <<>> ELSE ages
  /\ UNCHANGED <<jobsFile, queueFile, mainPc, attempts>>

\* await uploadResume(): it returns the file or throws, and a throw is
\* caught by the cycle's catch, which ends the cycle.
UploadResume(p) ==
  /\ inv[p].pc = "upload"
  /\ \E ok \in BOOLEAN :
       Continue(p, IF ok THEN [inv[p] EXCEPT !.pc = "analyze"] ELSE Idle)
  /\ UNCHANGED <<jobsFile, queueFile, triggers, attempts, ages>>

\* Mutant: the cycle goes on without a profile.
AnalyzeAndFindJobs_IgnoresFailure(p, responses) ==
  /\ inv[p].pc = "analyze"
  /\ \E r \in responses :
       Continue(p, [inv[p] EXCEPT !.pc = "checkQueue",
                                  !.profile = r.profile,
                                  !.jobs = rankJobs(r.ids, r.profile)])
  /\ UNCHANGED <<jobsFile, queueFile, triggers, attempts, ages>>

\* await analyzeAndFindJobs(resumeFile): a response carries a profile and
\* listings, which are scored and sorted; a failure is the null profile and
\* no listing.  Without a profile the cycle returns.
AnalyzeAndFindJobs(p, responses) ==
  /\ inv[p].pc = "analyze"
  /\ \E r \in responses :
       Continue(p, IF ~r.profile.present
                     THEN Idle
                     ELSE [inv[p] EXCEPT !.pc = "checkQueue",
                                         !.profile = r.profile,
                                         !.jobs = rankJobs(r.ids, r.profile)])
  /\ UNCHANGED <<jobsFile, queueFile, triggers, attempts, ages>>

\* const queueSize = await getQueueSize(); if (queueSize > 0) processJobQueue
CheckQueue(p) ==
  /\ inv[p].pc = "checkQueue"
  /\ LET l == [inv[p] EXCEPT !.queueSize = getQueueSize(queueFile)]
     IN  Continue(p, IF l.queueSize > 0 THEN callProcessJobQueue(l, 1)
                                        ELSE afterFirstRun(l))
  /\ UNCHANGED <<jobsFile, queueFile, triggers, attempts, ages>>

\* ProcessQueueSize without the early return: the queue is loaded whatever
\* its size.
ProcessQueueSize_NoEarlyReturn(p) ==
  /\ inv[p].pc = "pqSize"
  /\ Continue(p, [inv[p] EXCEPT !.pc = "pqLoad",
                                !.queueSize = getQueueSize(queueFile),
                                !.queue = <<>>, !.jobsToProcess = <<>>, !.i = 0,
                                !.sentCount = 0, !.failedCount = 0, !.error = ""])
  /\ UNCHANGED <<jobsFile, queueFile, triggers, attempts, ages>>

\* processJobQueue: const queueSize = await getQueueSize(); return 0 if empty
ProcessQueueSize(p) ==
  /\ inv[p].pc = "pqSize"
  /\ LET l == [inv[p] EXCEPT !.queueSize = getQueueSize(queueFile),
                             !.queue = <<>>, !.jobsToProcess = <<>>, !.i = 0,
                             !.sentCount = 0, !.failedCount = 0, !.error = ""]
     IN  Continue(p, [l EXCEPT !.pc = IF l.queueSize = 0 THEN "pqReturn" ELSE "pqLoad"])
  /\ UNCHANGED <<jobsFile, queueFile, triggers, attempts, ages>>

\* const queue = await loadQueue(); the slice to process; the loop starts
ProcessQueueLoad(p) ==
  /\ inv[p].pc = "pqLoad"
  /\ LET queue == loadQueue(queueFile)
         jobsToProcess == IF inv[p].clearAll THEN queue
                          ELSE slice(queue, MAX_EMAILS_PER_RUN)
     IN  Continue(p, [inv[p] EXCEPT !.queue = queue,
                                    !.jobsToProcess = jobsToProcess,
                                    !.i = 1,
                                    !.pc = IF Len(jobsToProcess) = 0 THEN "pqReturn"
                                                                     ELSE "send"])
  /\ UNCHANGED <<jobsFile, queueFile, triggers, attempts, ages>>

\* One attempt: the body and the recipients are checked, then the transport
\* accepts or rejects the mail.  cap bounds the attempts explored; flaky
\* are the listings whose mail the transport may reject.
Send(p, cap, flaky) ==
  /\ inv[p].pc = "send"
  /\ Len(attempts) < cap
  /\ LET job == inv[p].jobsToProcess[inv[p].i]
         err == localError(job)
     IN  \E accepted \in BOOLEAN :
           /\ err # "" => accepted = FALSE
           /\ (err = "" /\ job.id \notin flaky) => accepted = TRUE
           /\ attempts' = Append(attempts,
                [job |-> job, transport |-> (err = ""), ok |-> accepted])
           /\ ages' = Append(ages, [age |-> 0, id |-> job.id, mode |-> inv[p].mode])
           /\ Continue(p, IF accepted
                THEN [inv[p] EXCEPT !.pc = "sentLoad"]
                ELSE [inv[p] EXCEPT !.pc = "failedLoad",
                        !.error = IF err # "" THEN err ELSE TransportError])
  /\ UNCHANGED <<jobsFile, queueFile, triggers>>

\* markJobSent: const db = await loadJobsDb()
MarkSentLoad(p) ==
  /\ inv[p].pc = "sentLoad"
  /\ Continue(p, [inv[p] EXCEPT !.pc = "sentSave", !.db = loadJobsDb(jobsFile)])
  /\ UNCHANGED <<jobsFile, queueFile, triggers, attempts, ages>>

\* markJobSent: the pushes and await saveJobsDb(db)
MarkSentSave(p) ==
  /\ inv[p].pc = "sentSave"
  /\ jobsFile' = saveJobsDb(markJobSent(inv[p].db, inv[p].jobsToProcess[inv[p].i]))
  /\ Continue(p, [inv[p] EXCEPT !.pc = "removeLoad", !.db = EmptyDb])
  /\ UNCHANGED <<queueFile, triggers, attempts, ages>>

\* removeJobFromQueue(0): const queue = await loadQueue()
RemoveLoad(p) ==
  /\ inv[p].pc = "removeLoad"
  /\ Continue(p, [inv[p] EXCEPT !.pc = "removeSave", !.q = loadQueue(queueFile)])
  /\ UNCHANGED <<jobsFile, queueFile, triggers, attempts, ages>>

\* removeJobFromQueue(0): the splice and await saveQueue(queue), when the
\* index is in range; then sentCount++ and the end of the iteration
RemoveSave(p) ==
  /\ inv[p].pc = "removeSave"
  /\ queueFile' = IF 0 < Len(inv[p].q)
                    THEN saveQueue(removeJobFromQueue(inv[p].q, 0))
                    ELSE queueFile
  /\ Continue(p, afterItem([inv[p] EXCEPT !.q = <<>>, !.sentCount = @ + 1]))
  /\ UNCHANGED <<jobsFile, triggers, attempts, ages>>

\* catch: markJobFailed: const db = await loadJobsDb()
MarkFailedLoad(p) ==
  /\ inv[p].pc = "failedLoad"
  /\ Continue(p, [inv[p] EXCEPT !.pc = "failedSave", !.db = loadJobsDb(jobsFile)])
  /\ UNCHANGED <<jobsFile, queueFile, triggers, attempts, ages>>

\* markJobFailed: the pushes and await saveJobsDb(db); then failedCount++
\* and the end of the iteration
MarkFailedSave(p) ==
  /\ inv[p].pc = "failedSave"
  /\ jobsFile' = saveJobsDb(markJobFailed(inv[p].db, inv[p].jobsToProcess[inv[p].i],
                                          inv[p].error))
  /\ Continue(p, afterItem([inv[p] EXCEPT !.db = EmptyDb, !.error = "",
                                          !.failedCount = @ + 1]))
  /\ UNCHANGED <<queueFile, triggers, attempts, ages>>

\* Time passes while every running invocation sits in delay(EMAIL_INTERVAL_MS).
\* The other steps (file reads and writes, the transport call) are taken to
\* last no time, the least they can.
Tick ==
  /\ \E p \in Procs : inv[p].pc = "delay" /\ inv[p].wake > 0
  /\ \A p \in Procs : \/ inv[p].pc = "idle"
                      \/ inv[p].pc = "delay" /\ inv[p].wake > 0
  /\ inv' = [p \in Procs |->
               IF inv[p].pc = "delay"
                 THEN [inv[p] EXCEPT !.wake = @ - EMAIL_INTERVAL_MS] ELSE inv[p]]
  /\ ages' = SelectSeq([n \in DOMAIN ages |->
                          [ages[n] EXCEPT !.age = @ + EMAIL_INTERVAL_MS]],
                       LAMBDA a : a.age < HOUR_MS)
  /\ UNCHANGED <<jobsFile, queueFile, mainPc, triggers, attempts>>

\* Mutant: after the delay a listing whose send failed is tried again.
DelayDone_RetryFailed(p) ==
  /\ inv[p].pc = "delay"
  /\ inv[p].wake = 0
  /\ Continue(p, [inv[p] EXCEPT !.pc = "send",
                     !.i = IF attempts[Len(attempts)].ok THEN @ + 1 ELSE @])
  /\ UNCHANGED <<jobsFile, queueFile, triggers, attempts, ages>>

\* The delay is over: the loop's i++ and the next iteration.
DelayDone(p) ==
  /\ inv[p].pc = "delay"
  /\ inv[p].wake = 0
  /\ Continue(p, [inv[p] EXCEPT !.pc = "send", !.i = @ + 1])
  /\ UNCHANGED <<jobsFile, queueFile, triggers, attempts, ages>>

\* processJobQueue has returned sentCount to the cycle.  After the first
\* call a scheduled cycle stops when the count reached MAX_EMAILS_PER_RUN;
\* after the second call only statistics are read and the cycle ends.
AfterProcess(p) ==
  /\ inv[p].pc = "pqReturn"
  /\ LET l == inv[p]
         processedCount == l.sentCount
     IN  Continue(p,
           IF l.call = 2 THEN Idle
           ELSE IF l.mode = "scheduled" /\ processedCount >= MAX_EMAILS_PER_RUN
             THEN Idle
             ELSE afterFirstRun(l))
  /\ UNCHANGED <<jobsFile, queueFile, triggers, attempts, ages>>

\* Filter loop: hrEmailSent = job.hrEmail ? await isEmailSent(job.hrEmail) : false
FilterEmail(p) ==
  /\ inv[p].pc = "filterEmail"
  /\ LET job == inv[p].jobs[inv[p].k]
     IN  Continue(p, [inv[p] EXCEPT !.pc = "filterCompany",
                        !.hrEmailSent = IF Truthy(hrEmailOf(job))
                                          THEN isEmailSent(loadJobsDb(jobsFile), hrEmailOf(job))
                                          ELSE FALSE])
  /\ UNCHANGED <<jobsFile, queueFile, triggers, attempts, ages>>

\* Filter loop: companySent = await isCompanySent(job.company); the listing
\* is kept when neither holds; after the last listing the survivors are
\* enqueued, or the cycle ends when there is none.
FilterCompany(p) ==
  /\ inv[p].pc = "filterCompany"
  /\ LET l == inv[p]
         job == l.jobs[l.k]
         companySent == isCompanySent(loadJobsDb(jobsFile), companyOf(job))
         newJobs == IF l.hrEmailSent \/ companySent THEN l.newJobs
                    ELSE Append(l.newJobs, job)
     IN  Continue(p,
           IF l.k < Len(l.jobs)
             THEN [l EXCEPT !.pc = "filterEmail", !.k = @ + 1, !.newJobs = newJobs,
                            !.hrEmailSent = FALSE]
           ELSE IF Len(newJobs) = 0 THEN Idle
           ELSE [l EXCEPT !.pc = "addLoad", !.newJobs = newJobs, !.hrEmailSent = FALSE])
  /\ UNCHANGED <<jobsFile, queueFile, triggers, attempts, ages>>

\* addJobsToQueue(newJobs): const queue = await loadQueue()
AddLoad(p) ==
  /\ inv[p].pc = "addLoad"
  /\ Continue(p, [inv[p] EXCEPT !.pc = "addSave", !.q = loadQueue(queueFile)])
  /\ UNCHANGED <<jobsFile, queueFile, triggers, attempts, ages>>

\* addJobsToQueue(newJobs): the push and await saveQueue(queue); then the
\* second call of processJobQueue
AddSave(p) ==
  /\ inv[p].pc = "addSave"
  /\ queueFile' = saveQueue(addJobsToQueue(inv[p].q, inv[p].newJobs))
  /\ Continue(p, callProcessJobQueue([inv[p] EXCEPT !.q = <<>>], 2))
  /\ UNCHANGED <<jobsFile, triggers, attempts, ages>>

\* The message of the error a rejected fs.writeFile throws.
StorageError == "write error"

\* markJobSent: await saveJobsDb(db) rejects; jobs.json stays as it was.  The
\* throw is inside the try of the loop, so the catch runs markJobFailed with
\* the message of the storage error.
MarkSentSaveFails(p) ==
  /\ inv[p].pc = "sentSave"
  /\ Continue(p, [inv[p] EXCEPT !.pc = "failedLoad", !.db = EmptyDb,
                                !.error = StorageError])
  /\ UNCHANGED <<jobsFile, queueFile, triggers, attempts, ages>>

\* removeJobFromQueue(0): await saveQueue(queue) rejects; jobQueue.json
\* stays as it was.  The mail is sent and recorded by then; the throw is
\* inside the try of the loop, so the catch runs markJobFailed.
RemoveSaveFails(p) ==
  /\ inv[p].pc = "removeSave"
  /\ 0 < Len(inv[p].q)
  /\ Continue(p, [inv[p] EXCEPT !.pc = "failedLoad", !.q = <<>>,
                                !.error = StorageError])
  /\ UNCHANGED <<jobsFile, queueFile, triggers, attempts, ages>>

\* Mutant: the error of the rejected write is caught by nothing and ends the
\* process.
MarkFailedSaveFails_Exits(p) ==
  /\ inv[p].pc = "failedSave"
  /\ inv' = [inv EXCEPT ![p] = Idle]
  /\ mainPc' = "exited"
  /\ UNCHANGED <<jobsFile, queueFile, triggers, attempts, ages>>

\* markJobFailed: await saveJobsDb(db) rejects inside the catch of the loop;
\* the error leaves processJobQueue and is caught by the catch of the cycle,
\* which ends the cycle.
MarkFailedSaveFails(p) ==
  /\ inv[p].pc = "failedSave"
  /\ Continue(p, Idle)
  /\ UNCHANGED <<jobsFile, queueFile, triggers, attempts, ages>>

\* addJobsToQueue: await saveQueue(queue) rejects; the error is caught by the
\* catch of the cycle, which ends the cycle.
AddSaveFails(p) ==
  /\ inv[p].pc = "addSave"
  /\ Continue(p, Idle)
  /\ UNCHANGED <<jobsFile, queueFile, triggers, attempts, ages>>

\* With no cycle running, the hour until a later trigger passes.
IdleHour ==
  /\ mainPc = "scheduled"
  /\ \A p \in Procs : inv[p].pc = "idle"
  /\ ages # <<>>
  /\ ages' = <<>>
  /\ UNCHANGED <<jobsFile, queueFile, mainPc, inv, triggers, attempts>>

\* ------------------------------------------------------------ specifications

\* Queue entries as an earlier run left them: scored against the profile.
entries(ids) == [n \in DOMAIN ids |-> Entry(ids[n], Profile1)]

Response(profile, ids) == [profile |-> profile, ids |-> ids]

InitQueues == { entries(<<>>), entries(<<1, 2>>), entries(<<4, 2>>), entries(<<3, 1, 5>>) }

Responses == { Response(NoProfile, <<>>), Response(Profile1, <<>>),
               Response(Profile1, <<2, 1>>), Response(Profile1, <<3, 5, 4>>) }

InitWith(queues) ==
  /\ mainPc = "verifySetup"
  /\ jobsFile \in {NoJobsFile, FileOf(EmptyDb)}
  /\ queueFile \in {NoQueueFile} \cup {FileOf(q) : q \in queues}
  /\ inv = [p \in Procs |-> Idle]
  /\ triggers = 0
  /\ attempts = <<>>
  /\ ages = <<>>

Step(p, overlap, responses, cap, flaky) ==
  \/ Trigger(p, overlap)
  \/ UploadResume(p)
  \/ AnalyzeAndFindJobs(p, responses)
  \/ CheckQueue(p)
  \/ ProcessQueueSize(p)
  \/ ProcessQueueLoad(p)
  \/ Send(p, cap, flaky)
  \/ MarkSentLoad(p)
  \/ MarkSentSave(p)
  \/ RemoveLoad(p)
  \/ RemoveSave(p)
  \/ MarkFailedLoad(p)
  \/ MarkFailedSave(p)
  \/ DelayDone(p)
  \/ AfterProcess(p)
  \/ FilterEmail(p)
  \/ FilterCompany(p)
  \/ AddLoad(p)
  \/ AddSave(p)

Init == InitWith(InitQueues)

\* Cycles that never overlap: one invocation slot.
Next ==
  \/ VerifySetup
  \/ StartupRun
  \/ Tick
  \/ IdleHour
  \/ Step(1, FALSE, Responses, MaxAttempts, DOMAIN Catalog)

Spec == Init /\ [][Next]_vars

\* Long queues: thirteen uniform listings queued or twelve discovered, so that
\* the cap of MAX_EMAILS_PER_RUN cuts the slice.
LongBatch == [n \in 1..MAX_EMAILS_PER_RUN |-> n + 6]

InitQueuesLong == { entries(<<6>>), entries(<<6>> \o LongBatch) }

ResponsesLong == { Response(NoProfile, <<>>), Response(Profile1, <<>>),
                   Response(Profile1, LongBatch) }

\* In the long runs the transport rejects only mail of these listings.
FlakyLong == {6, 7, 18}

InitLong == InitWith(InitQueuesLong)

NextLong ==
  \/ VerifySetup
  \/ StartupRun
  \/ Tick
  \/ IdleHour
  \/ Step(1, FALSE, ResponsesLong, MaxAttemptsLong, FlakyLong)

SpecLong == InitLong /\ [][NextLong]_vars

\* Overlapping cycles: the startup run has returned without touching the
\* files, the triggers are registered, and a trigger may fire while an earlier
\* cycle still runs (nothing in main or in the cycle prevents it), so that the
\* steps of two invocations interleave at their awaits.
InitQueuesOverlap == { entries(<<1, 2>>) }

ResponsesOverlap == { Response(Profile1, <<>>), Response(Profile1, <<6>>) }

FlakyOverlap == {1}

InitOverlap ==
  /\ mainPc = "scheduled"
  /\ jobsFile = FileOf(EmptyDb)
  /\ queueFile \in {FileOf(q) : q \in InitQueuesOverlap}
  /\ inv = [p \in Procs |-> Idle]
  /\ triggers = 0
  /\ attempts = <<>>
  /\ ages = <<>>

NextOverlap ==
  \/ Tick
  \/ IdleHour
  \/ \E p \in Procs : Step(p, TRUE, ResponsesOverlap, MaxAttemptsOverlap, FlakyOverlap)

SpecOverlap == InitOverlap /\ [][NextOverlap]_vars

\* Failing writes: as the ordinary specification, and a write of jobs.json or
\* jobQueue.json may be rejected by the file system.
InitQueuesFault == { entries(<<>>), entries(<<1, 2>>) }

ResponsesFault == { Response(NoProfile, <<>>), Response(Profile1, <<6>>) }

FlakyFault == {1}

InitFault == InitWith(InitQueuesFault)

NextFault ==
  \/ VerifySetup
  \/ StartupRun
  \/ Tick
  \/ IdleHour
  \/ Step(1, FALSE, ResponsesFault, MaxAttemptsFault, FlakyFault)
  \/ MarkSentSaveFails(1)
  \/ RemoveSaveFails(1)
  \/ MarkFailedSaveFails(1)
  \/ AddSaveFails(1)

SpecFault == InitFault /\ [][NextFault]_vars

\* Ranking: discovery answers with the three workType variants of a score
\* base in some order, or with two of them around the listing that scores
\* nothing, for a profile with or without skills.
ResponsesRank ==
  {Response(NoProfile, <<>>)}
  \cup {Response(pr, <<VariantId(b, 3), VariantId(b, 1), VariantId(b, 2)>>) :
          pr \in {Profile0, Profile1}, b \in DOMAIN ScoreBases}
  \cup {Response(pr, <<VariantId(b, 2), VariantId(b, 3), VariantId(b, 1)>>) :
          pr \in {Profile0, Profile1}, b \in DOMAIN ScoreBases}
  \cup {Response(pr, <<ZeroId, VariantId(b, 3), VariantId(b, 1)>>) :
          pr \in {Profile0, Profile1}, b \in DOMAIN ScoreBases}

FlakyRank == {ZeroId}

InitRank == InitWith({entries(<<>>)})

NextRank ==
  \/ VerifySetup
  \/ StartupRun
  \/ Tick
  \/ IdleHour
  \/ Step(1, FALSE, ResponsesRank, MaxAttemptsRank, FlakyRank)

SpecRank == InitRank /\ [][NextRank]_vars

\* Termination of a queue run: queues whose listings fail on every attempt
\* (4 has no body, 3 no address) or may fail (1), and the steps of
\* processJobQueue under weak fairness: an awaited file operation or
\* transport call that can complete does complete, and a timer that was set
\* fires.
InitQueuesLive == { entries(<<4, 3>>), entries(<<3, 1, 5>>) }

ResponsesLive == { Response(NoProfile, <<>>), Response(Profile1, <<2, 1>>) }

FlakyLive == {1, 2}

InitLive == InitWith(InitQueuesLive)

\* The steps of processJobQueue, from its entry to its return.
QueueRunStep(p, cap, flaky) ==
  \/ ProcessQueueSize(p)
  \/ ProcessQueueLoad(p)
  \/ Send(p, cap, flaky)
  \/ MarkSentLoad(p)
  \/ MarkSentSave(p)
  \/ RemoveLoad(p)
  \/ RemoveSave(p)
  \/ MarkFailedLoad(p)
  \/ MarkFailedSave(p)
  \/ DelayDone(p)

NextLive ==
  \/ VerifySetup
  \/ StartupRun
  \/ Tick
  \/ IdleHour
  \/ Step(1, FALSE, ResponsesLive, MaxAttemptsLive, FlakyLive)

FairLive ==
  /\ WF_vars(Tick)
  /\ WF_vars(QueueRunStep(1, MaxAttemptsLive, FlakyLive))

SpecLive == InitLive /\ [][NextLive]_vars /\ FairLive

\* The whole of main: verification, the startup run, and triggers that may
\* fire while an earlier scheduled cycle still runs.
InitQueuesBoot == { entries(<<1, 2>>) }

ResponsesBoot == { Response(NoProfile, <<>>), Response(Profile1, <<>>),
                   Response(Profile1, <<6>>) }

FlakyBoot == {1}

InitBoot == InitWith(InitQueuesBoot)

NextBoot ==
  \/ VerifySetup
  \/ StartupRun
  \/ Tick
  \/ IdleHour
  \/ \E p \in Procs : Step(p, TRUE, ResponsesBoot, MaxAttemptsBoot, FlakyBoot)

SpecBoot == InitBoot /\ [][NextBoot]_vars

\* Head-of-line blocking: MAX_EMAILS_PER_RUN listings without a mail body,
\* whose attempts fail whenever they are made, are queued ahead of listing 6,
\* whose mail the transport accepts.
PoisonBatch == [k \in 1..MAX_EMAILS_PER_RUN |-> PoisonId(k)]

InitQueuesStarve == { entries(PoisonBatch \o <<6>>) }

ResponsesStarve == { Response(NoProfile, <<>>), Response(Profile1, <<>>),
                     Response(Profile1, <<7>>) }

FlakyStarve == {}

\* Room for the startup run and for one full slice in every scheduled cycle.
MaxAttemptsStarve == MAX_EMAILS_PER_RUN * (MaxTriggers + 1) + 2

InitStarve == InitWith(InitQueuesStarve)

NextStarve ==
  \/ VerifySetup
  \/ StartupRun
  \/ Tick
  \/ IdleHour
  \/ Step(1, FALSE, ResponsesStarve, MaxAttemptsStarve, FlakyStarve)

SpecStarve == InitStarve /\ [][NextStarve]_vars

\* ------------------------------------------------------------------- claims

\* The documents as persisted (a missing file holds the empty document).
dbNow == jobsFile.content
queueNow == queueFile.content
Range(seq) == {seq[n] : n \in DOMAIN seq}

\* The attempts of the queue run that invocation p has just completed: one
\* per job of its slice, the latest ones made.
runAttempts(p) ==
  SubSeq(attempts, Len(attempts) - Len(inv[p].jobsToProcess) + 1, Len(attempts))

\* The jobs of a slice whose attempt failed, in slice order.
RECURSIVE failedJobs(_)
failedJobs(run) ==
  IF run = <<>> THEN <<>>
  ELSE (IF Head(run).ok THEN <<>> ELSE <<Head(run).job>>) \o failedJobs(Tail(run))

BeyondSlice(p) == SubSeq(inv[p].queue, Len(inv[p].jobsToProcess) + 1, Len(inv[p].queue))

\* C1: when a queue run in which some sends failed and others succeeded has
\* returned, the persisted queue is exactly the listings of the slice whose
\* send failed, in their order, followed by the listings beyond the slice.
C1_QueueIsFailedThenRest ==
  \A p \in Procs :
    (/\ inv[p].pc = "pqReturn"
     /\ Len(inv[p].jobsToProcess) > 0
     /\ \E n \in DOMAIN runAttempts(p) : runAttempts(p)[n].ok
     /\ \E n \in DOMAIN runAttempts(p) : ~runAttempts(p)[n].ok)
    => queueNow = failedJobs(runAttempts(p)) \o BeyondSlice(p)

\* C2: a listing whose send failed, and which no later send delivered, is
\* still in the persisted queue (so that the next queue run attempts it).
C2_FailedStaysQueued ==
  \A n \in DOMAIN attempts :
    (/\ ~attempts[n].ok
     /\ ~\E m \in DOMAIN attempts : m > n /\ attempts[m].ok /\ attempts[m].job = attempts[n].job)
    => attempts[n].job \in Range(queueNow)

\* C3: when a bounded queue run over a queue of size m <= MAX_EMAILS_PER_RUN
\* has returned, the size of the persisted queue is the number of failed sends
\* of the run, which is m minus the returned sentCount.
C3_QueueConservation ==
  \A p \in Procs :
    (/\ inv[p].pc = "pqReturn"
     /\ ~inv[p].clearAll
     /\ inv[p].queueSize <= MAX_EMAILS_PER_RUN)
    => /\ Len(queueNow) = Len(failedJobs(runAttempts(p)))
       /\ Len(queueNow) = inv[p].queueSize - inv[p].sentCount

\* C3's case: a bounded run over two or more listings has returned with a
\* sent and a failed listing.
C3_Witness ==
  \E p \in Procs :
    /\ inv[p].pc = "pqReturn"
    /\ ~inv[p].clearAll
    /\ inv[p].queueSize >= 2
    /\ inv[p].sentCount >= 1
    /\ inv[p].failedCount >= 1

\* C4: the handling of a failed attempt (from the failed send to the end of
\* markJobFailed) writes the History once, appending one failed record with
\* the error message and the lower-cased company, and leaves sentEmails and
\* the persisted queue as they were.
C4_FailedAttempt ==
  [][\A p \in Procs :
       /\ (inv[p].pc \in {"send", "failedLoad"} /\ inv'[p].pc \in {"failedLoad", "failedSave"})
            => /\ jobsFile' = jobsFile
               /\ queueFile' = queueFile
               /\ inv'[p].error # ""
       /\ (inv[p].pc = "failedSave" /\ inv'[p].pc # "failedSave")
            => LET job == inv[p].jobsToProcess[inv[p].i]
               IN  /\ dbNow'.jobs = Append(dbNow.jobs,
                        [id |-> job.id, score |-> job.score, status |-> "failed",
                         errorMessage |-> inv[p].error])
                   /\ inv[p].error # ""
                   /\ dbNow'.sentCompanies =
                        Append(dbNow.sentCompanies, toLowerCase(companyOf(job)))
                   /\ dbNow'.sentEmails = dbNow.sentEmails
                   /\ queueFile' = queueFile]_vars

\* C4's case: a listing with an HR email was rejected by the transport and
\* its failed record is the latest record of the History.
C4_Witness ==
  /\ Len(dbNow.jobs) > 0
  /\ dbNow.jobs[Len(dbNow.jobs)].status = "failed"
  /\ dbNow.jobs[Len(dbNow.jobs)].errorMessage = TransportError
  /\ Truthy(hrEmailOf(dbNow.jobs[Len(dbNow.jobs)]))
  /\ \E p \in Procs : inv[p].pc \in {"delay", "pqReturn"}

\* A queue with its entry at position n taken out.
Without(queue, n) == SubSeq(queue, 1, n - 1) \o SubSeq(queue, n + 1, Len(queue))

\* C5: the handling of a successful attempt appends one sent record, adds the
\* lower-cased emails that are present and the lower-cased company, and makes
\* the persisted queue one entry shorter by removing the listing just sent.
C5_SentAttempt ==
  [][\A p \in Procs :
       LET job == inv[p].jobsToProcess[inv[p].i]
       IN  /\ (inv[p].pc = "sentSave" /\ inv'[p].pc # "sentSave")
                => /\ dbNow'.jobs = Append(dbNow.jobs,
                         [id |-> job.id, score |-> job.score, status |-> "sent",
                          errorMessage |-> ""])
                   /\ dbNow'.sentCompanies =
                         Append(dbNow.sentCompanies, toLowerCase(companyOf(job)))
                   /\ Truthy(hrEmailOf(job))
                        => toLowerCase(hrEmailOf(job)) \in Range(dbNow'.sentEmails)
                   /\ Truthy(dmEmailOf(job))
                        => toLowerCase(dmEmailOf(job)) \in Range(dbNow'.sentEmails)
           /\ (inv[p].pc = "removeSave" /\ inv'[p].pc # "removeSave")
                => \E n \in DOMAIN queueNow :
                     /\ queueNow[n] = job
                     /\ queueNow' = Without(queueNow, n)]_vars

\* C6 as stated: the emails of every listing with a history record, sent or
\* failed, are in sentEmails.
C6_EmailsOfEveryAttempt ==
  \A n \in DOMAIN dbNow.jobs :
    LET rec == dbNow.jobs[n]
    IN  /\ Truthy(hrEmailOf(rec)) => toLowerCase(hrEmailOf(rec)) \in Range(dbNow.sentEmails)
        /\ Truthy(dmEmailOf(rec)) => toLowerCase(dmEmailOf(rec)) \in Range(dbNow.sentEmails)

\* C6, amended: the lower-cased hrEmail and decisionMakerEmail (each when
\* present) of every listing with a history record of status sent are in
\* sentEmails.
C6_EmailsOfEverySent ==
  \A n \in DOMAIN dbNow.jobs :
    LET rec == dbNow.jobs[n]
    IN  rec.status = "sent" =>
          /\ Truthy(hrEmailOf(rec)) => toLowerCase(hrEmailOf(rec)) \in Range(dbNow.sentEmails)
          /\ Truthy(dmEmailOf(rec)) => toLowerCase(dmEmailOf(rec)) \in Range(dbNow.sentEmails)

\* C6's case: the History holds a sent record of a listing with both emails,
\* one of them written with capitals, and a failed record of a listing with
\* an HR email.
C6_Witness ==
  /\ \E n \in DOMAIN dbNow.jobs :
       /\ dbNow.jobs[n].status = "sent"
       /\ Truthy(dmEmailOf(dbNow.jobs[n]))
       /\ hrEmailOf(dbNow.jobs[n]) # toLowerCase(hrEmailOf(dbNow.jobs[n]))
  /\ \E n \in DOMAIN dbNow.jobs :
       /\ dbNow.jobs[n].status = "failed"
       /\ Truthy(hrEmailOf(dbNow.jobs[n]))

\* C7: no step removes an email from sentEmails or a company from
\* sentCompanies.
C7_DedupMonotonic ==
  [][/\ Range(dbNow.sentEmails) \subseteq Range(dbNow'.sentEmails)
     /\ Range(dbNow.sentCompanies) \subseteq Range(dbNow'.sentCompanies)]_vars

\* C7's case: both sets are non-empty and a History write has followed.
C7_Witness ==
  /\ Len(dbNow.sentEmails) >= 1
  /\ Len(dbNow.sentCompanies) >= 2
  /\ Len(dbNow.jobs) >= 2
  /\ triggers >= 1

\* Every letter-casing of a string.
UpperChar(c) ==
  IF \E k \in DOMAIN LowerChars : LowerChars[k] = c
    THEN UpperChars[CHOOSE k \in DOMAIN LowerChars : LowerChars[k] = c]
    ELSE c
CasingsOf(str) ==
  {t \in [DOMAIN str -> UNION {{LowerChar(str[n]), UpperChar(str[n])} : n \in DOMAIN str}] :
     toLowerCase(t) = toLowerCase(str)}

\* Every letter-casing of the company of each listing.
CompanyCasings == [id \in DOMAIN Catalog |-> CasingsOf(Catalog[id].company)]

\* C8: for every history record, sent or failed, the lower-cased company is
\* in sentCompanies, and isCompanySent answers true for every letter-casing
\* of that company.
C8_RecordedCompanyIsSent ==
  \A n \in DOMAIN dbNow.jobs :
    /\ toLowerCase(companyOf(dbNow.jobs[n])) \in Range(dbNow.sentCompanies)
    /\ \A c \in CompanyCasings[dbNow.jobs[n].id] : isCompanySent(dbNow, c)

\* C8's case: the History holds a failed record of a company written with a
\* capital, and a cycle has been triggered since.
C8_Witness ==
  /\ \E n \in DOMAIN dbNow.jobs :
       /\ dbNow.jobs[n].status = "failed"
       /\ companyOf(dbNow.jobs[n]) # toLowerCase(companyOf(dbNow.jobs[n]))
  /\ \E n \in DOMAIN dbNow.jobs : dbNow.jobs[n].status = "sent"
  /\ triggers >= 1

\* A listing is contacted when its company is in sentCompanies, its HR email
\* is in sentEmails, or the History holds a record of its company.
Contacted(job) ==
  \/ toLowerCase(companyOf(job)) \in Range(dbNow.sentCompanies)
  \/ Truthy(hrEmailOf(job)) /\ toLowerCase(hrEmailOf(job)) \in Range(dbNow.sentEmails)
  \/ \E n \in DOMAIN dbNow.jobs :
       toLowerCase(companyOf(dbNow.jobs[n])) = toLowerCase(companyOf(job))

\* C9: in both modes the filter keeps no contacted listing, and the listings
\* a cycle appends to the queue are the ones the filter kept, none of them
\* contacted.
C9_FilterExcludesContacted ==
  [][\A p \in Procs :
       /\ (inv[p].pc = "filterCompany" /\ inv'[p].pc # "filterCompany")
            => LET job == inv[p].jobs[inv[p].k]
                   kept == IF inv'[p].pc = "idle" THEN inv[p].newJobs ELSE inv'[p].newJobs
               IN  /\ Contacted(job) => kept = inv[p].newJobs
                   /\ \A n \in DOMAIN kept : ~Contacted(kept[n])
       /\ (inv[p].pc = "addSave" /\ inv'[p].pc # "addSave")
            => /\ queueNow' = queueNow \o inv[p].newJobs
               /\ \A n \in DOMAIN inv[p].newJobs : ~Contacted(inv[p].newJobs[n])
       /\ Len(queueNow') > Len(queueNow) => \E q \in Procs : inv[q].pc = "addSave"]_vars

\* C9's case: a cycle has enqueued its survivors after the filter excluded a
\* listing by its company and another by its HR email alone.
C9_Witness ==
  \E p \in Procs :
    /\ inv[p].pc = "pqSize"
    /\ inv[p].call = 2
    /\ Len(inv[p].newJobs) >= 1
    /\ \E n \in DOMAIN inv[p].jobs :
         toLowerCase(companyOf(inv[p].jobs[n])) \in Range(dbNow.sentCompanies)
    /\ \E n \in DOMAIN inv[p].jobs :
         /\ toLowerCase(companyOf(inv[p].jobs[n])) \notin Range(dbNow.sentCompanies)
         /\ toLowerCase(hrEmailOf(inv[p].jobs[n])) \in Range(dbNow.sentEmails)

\* C10: of the send attempts that scheduled cycles hand to the transport, no
\* more than MAX_EMAILS_PER_RUN start within one hour.
C10_TwelvePerHour ==
  Cardinality({n \in DOMAIN ages :
                 ages[n].mode = "scheduled"
                 /\ localError([id |-> ages[n].id]) = ""}) <= MAX_EMAILS_PER_RUN

\* The position in ages of the latest attempt for listing id, 0 when none.
latestAge(id) ==
  IF \E n \in DOMAIN ages : ages[n].id = id
    THEN CHOOSE n \in DOMAIN ages :
           /\ ages[n].id = id
           /\ \A m \in DOMAIN ages : ages[m].id = id => m <= n
    ELSE 0

C12_StopsAfterFullSlice ==
  [][\A p \in Procs :
       (/\ inv[p].pc = "pqReturn"
        /\ inv[p].mode = "scheduled"
        /\ inv[p].call = 1
        /\ Len(inv[p].jobsToProcess) >= MAX_EMAILS_PER_RUN
        /\ inv'[p] # inv[p])
       => inv'[p].pc = "idle"]_vars

\* C13: a scheduled cycle that starts with listings in the queue runs the
\* queue before it invokes discovery, so that the cycle does not end on the
\* answer of discovery with the pending listings unattempted.
C13_ScheduledQueueBeforeDiscovery ==
  [][\A p \in Procs :
       (/\ inv[p].mode = "scheduled"
        /\ inv[p].pc = "analyze"
        /\ inv'[p].pc = "idle")
       => Len(queueNow) = 0]_vars

\* C14: the startup run drains the queue it finds before it invokes
\* discovery, so that the run does not end on the answer of discovery with
\* the listings queued at startup unattempted.
C14_StartupQueueBeforeDiscovery ==
  [][\A p \in Procs :
       (/\ inv[p].mode = "startup"
        /\ inv[p].pc = "analyze"
        /\ inv'[p].pc = "idle")
       => Len(queueNow) = 0]_vars

\* Invocation p is inside the loop of a queue run, or has left it.
InRun(p) ==
  \/ inv[p].pc \in {"send", "sentLoad", "sentSave", "removeLoad", "removeSave",
                    "failedLoad", "failedSave", "delay"}
  \/ inv[p].pc = "pqReturn" /\ Len(inv[p].jobsToProcess) > 0

\* The number of send attempts the run of p has made so far.
attemptsMade(p) == IF inv[p].pc = "send" THEN inv[p].i - 1 ELSE inv[p].i

\* The latest n send attempts.
lastAttempts(n) == SubSeq(attempts, Len(attempts) - n + 1, Len(attempts))

Min(a, b) == IF a <= b THEN a ELSE b

\* C15: a bounded queue run works on the first min(MAX_EMAILS_PER_RUN, size)
\* listings of the queue it loaded; its attempts, MAX_EMAILS_PER_RUN at most,
\* are for those listings, and the listings beyond the slice stay at the end
\* of the persisted queue as they were.
C15_BoundedSlice ==
  \A p \in Procs :
    (InRun(p) /\ ~inv[p].clearAll) =>
      LET l == inv[p]
          made == attemptsMade(p)
          rest == BeyondSlice(p)
      IN  /\ Len(l.jobsToProcess) = Min(MAX_EMAILS_PER_RUN, Len(l.queue))
          /\ l.jobsToProcess = SubSeq(l.queue, 1, Len(l.jobsToProcess))
          /\ made <= MAX_EMAILS_PER_RUN
          /\ made <= Len(attempts)
          /\ \A n \in 1..made : lastAttempts(made)[n].job = l.queue[n]
          /\ Len(queueNow) >= Len(rest)
          /\ SubSeq(queueNow, Len(queueNow) - Len(rest) + 1, Len(queueNow)) = rest

\* C15's case: a bounded run over a queue of more than MAX_EMAILS_PER_RUN
\* listings has returned after MAX_EMAILS_PER_RUN attempts, one of them failed.
C15_Witness ==
  \E p \in Procs :
    /\ inv[p].pc = "pqReturn"
    /\ ~inv[p].clearAll
    /\ Len(inv[p].queue) > MAX_EMAILS_PER_RUN
    /\ inv[p].sentCount + inv[p].failedCount = MAX_EMAILS_PER_RUN
    /\ inv[p].failedCount >= 1

recordsMade(p) ==
  IF inv[p].pc \in {"send", "sentLoad", "sentSave", "failedLoad", "failedSave"}
    THEN inv[p].i - 1 ELSE inv[p].i

\* C18: within one queue run the attempts are for the listings of the slice
\* in queue order, an attempt is made only when the record of the attempt
\* before it has been written, and the records the run has written are the
\* latest records of the History, in the order of the attempts and each with
\* the outcome of its attempt.
C18_QueueOrderAndHistoryOrder ==
  \A p \in Procs :
    InRun(p) =>
      LET l == inv[p]
          made == attemptsMade(p)
          recs == recordsMade(p)
          hist == dbNow.jobs
      IN  /\ made <= Len(attempts)
          /\ \A n \in 1..made : lastAttempts(made)[n].job = l.jobsToProcess[n]
          /\ recs \in {made - 1, made}
          /\ recs <= Len(hist)
          /\ \A n \in 1..recs :
                LET rec == hist[Len(hist) - recs + n]
                IN  /\ rec.id = l.jobsToProcess[n].id
                    /\ rec.status = IF lastAttempts(made)[n].ok THEN "sent" ELSE "failed"

\* C18's case: a run over three listings has returned with a sent and a
\* failed item, and the History held records of an earlier run before it.
C18_Witness ==
  \E p \in Procs :
    /\ inv[p].pc = "pqReturn"
    /\ Len(inv[p].jobsToProcess) = 3
    /\ inv[p].sentCount >= 1
    /\ inv[p].failedCount >= 1
    /\ Len(dbNow.jobs) > 3
    /\ dbNow.jobs[Len(dbNow.jobs)].status = "sent"
    /\ dbNow.jobs[Len(dbNow.jobs) - 2].status = "failed"

\* C17: processJobQueue entered with an empty queue returns 0 in its first
\* step: it loads no slice, attempts no send, takes no delay and writes
\* neither jobs.json nor jobQueue.json.
C17_EmptyQueueNoOp ==
  [][\A p \in Procs :
       (inv[p].pc = "pqSize" /\ inv'[p].pc # "pqSize" /\ Len(queueNow) = 0)
       => /\ inv'[p].pc = "pqReturn"
          /\ inv'[p].sentCount = 0
          /\ inv'[p].jobsToProcess = <<>>
          /\ inv'[p].wake = 0
          /\ jobsFile' = jobsFile
          /\ queueFile' = queueFile
          /\ attempts' = attempts
          /\ ages' = ages]_vars

\* C17's case: a cycle that saw listings in the queue has entered
\* processJobQueue after an overlapping cycle removed the last of them, and
\* processJobQueue has returned 0.
C17_Witness ==
  \E p \in Procs :
    /\ inv[p].pc = "pqReturn"
    /\ inv[p].queueSize = 0
    /\ inv[p].sentCount = 0
    /\ inv[p].jobsToProcess = <<>>
    /\ Len(queueNow) = 0

IsPrefix(s, t) == Len(s) <= Len(t) /\ SubSeq(t, 1, Len(s)) = s

\* A step keeps what the History holds: records and dedup entries stay where
\* they are.
KeepsHistory ==
  /\ IsPrefix(dbNow.jobs, dbNow'.jobs)
  /\ IsPrefix(dbNow.sentEmails, dbNow'.sentEmails)
  /\ IsPrefix(dbNow.sentCompanies, dbNow'.sentCompanies)

\* C20: with overlapping cycles an update of the History is lost by a stale
\* whole-document write and by nothing else: a step that drops a record or a
\* dedup entry is the save of markJobSent or markJobFailed by an invocation
\* whose loaded copy is no longer the document.
C20_StaleWriteLosesUpdate ==
  [][~KeepsHistory =>
       \E p \in Procs :
         /\ inv[p].pc \in {"sentSave", "failedSave"}
         /\ inv'[p].pc # inv[p].pc
         /\ inv[p].db # dbNow]_vars

\* C20's case: two overlapping cycles have ended, every attempt they made
\* was recorded by markJobSent or markJobFailed, and the History lacks the
\* record and the company of one of the attempts.
C20_Witness ==
  /\ \A p \in Procs : inv[p].pc = "idle"
  /\ Len(dbNow.jobs) < Len(attempts)
  /\ \E n \in DOMAIN attempts :
       /\ toLowerCase(companyOf(attempts[n].job)) \notin Range(dbNow.sentCompanies)
       /\ \A m \in DOMAIN dbNow.jobs : dbNow.jobs[m].id # attempts[n].job.id

\* No invocation is between a send attempt and the end of its bookkeeping.
Settled == \A p \in Procs : inv[p].pc \in {"idle", "send", "delay", "pqReturn"}

\* C19: no step removes or changes a history record, and once the
\* bookkeeping of the attempts made is over the History holds exactly one
\* record per send attempt, in order, with status sent when the transport
\* accepted the mail and failed otherwise.
C19_OneRecordPerAttempt ==
  [][/\ IsPrefix(dbNow.jobs, dbNow'.jobs)
     /\ Settled' =>
          /\ Len(dbNow'.jobs) = Len(attempts')
          /\ \A n \in DOMAIN attempts' :
                /\ dbNow'.jobs[n].id = attempts'[n].job.id
                /\ dbNow'.jobs[n].status = IF attempts'[n].ok THEN "sent" ELSE "failed"]_vars

\* A step of invocation p in which an awaited call throws: uploadResume, or
\* a write of jobs.json or jobQueue.json.
Thrown(p) ==
  \/ inv[p].pc = "upload" /\ inv'[p].pc = "idle"
  \/ inv[p].pc = "sentSave" /\ inv'[p].pc = "failedLoad"
  \/ inv[p].pc = "removeSave" /\ inv'[p].pc = "failedLoad"
  \/ inv[p].pc = "failedSave" /\ inv'[p].pc = "idle"
  \/ inv[p].pc = "addSave" /\ inv'[p].pc = "idle"

sentRecords == Cardinality({n \in DOMAIN dbNow.jobs : dbNow.jobs[n].status = "sent"})

\* C22: the value processJobQueue returns is the number of sent records
\* appended during the invocation.  Stated for the first queue run after an
\* empty History, where the records appended during the invocation are all
\* the records there are.
C22_ReturnsSentRecords ==
  \A p \in Procs :
    (/\ inv[p].pc = "pqReturn"
     /\ Len(inv[p].jobsToProcess) > 0
     /\ Len(attempts) = Len(inv[p].jobsToProcess))
    => inv[p].sentCount = sentRecords

\* The place of a listing's workType in remote > hybrid > onsite, 0 when it
\* is none of them.
WorkRank(id) ==
  LET w == toLowerCase(Catalog[id].workType)
  IN  IF w = W_remote THEN 3 ELSE IF w = W_hybrid THEN 2 ELSE IF w = W_onsite THEN 1 ELSE 0

\* Two listings that differ in workType alone, if at all.
OtherwiseIdentical(a, b) ==
  [Catalog[a] EXCEPT !.workType = <<>>] = [Catalog[b] EXCEPT !.workType = <<>>]

\* C23: of two scored listings that differ in workType alone, the remote one
\* has a strictly greater score than the hybrid one, and the hybrid one a
\* strictly greater score than the onsite one, whatever the profile and the
\* other fields.
C23_RemoteOverHybridOverOnsite ==
  \A p \in Procs : \A m, n \in DOMAIN inv[p].jobs :
    LET a == inv[p].jobs[m]
        b == inv[p].jobs[n]
    IN  (/\ OtherwiseIdentical(a.id, b.id)
         /\ WorkRank(b.id) >= 1
         /\ WorkRank(a.id) > WorkRank(b.id))
        => a.score > b.score

\* C23's case: discovery has answered with the remote, hybrid and onsite
\* variant of a listing that matches skills of the profile and has company
\* and funding bonuses, and they are scored.
C23_Witness ==
  \E p \in Procs :
    /\ inv[p].pc = "checkQueue"
    /\ Len(inv[p].jobs) = 3
    /\ {WorkRank(inv[p].jobs[n].id) : n \in 1..3} = {1, 2, 3}
    /\ \A m, n \in 1..3 : OtherwiseIdentical(inv[p].jobs[m].id, inv[p].jobs[n].id)
    /\ inv[p].jobs[3].score > 100
    /\ inv[p].profile = Profile1

\* The dedup filter's verdict on a scored listing against the History.
PassesFilter(e) ==
  /\ ~(Truthy(hrEmailOf(e)) /\ toLowerCase(hrEmailOf(e)) \in Range(dbNow.sentEmails))
  /\ toLowerCase(companyOf(e)) \notin Range(dbNow.sentCompanies)

NonIncreasing(jobs) == \A m, n \in DOMAIN jobs : m < n => jobs[m].score >= jobs[n].score

\* C26: every listing of a discovery answer is scored and kept, in
\* non-increasing score order; the batch a cycle appends to the queue is the
\* scored listings that pass the dedup filter, all of them and in that order,
\* whatever their score; a cycle appends nothing only when no listing passes.
C26_ScoreOrdersNeverGates ==
  [][\A p \in Procs :
       /\ (inv[p].pc = "analyze" /\ inv'[p].pc = "checkQueue")
            => /\ NonIncreasing(inv'[p].jobs)
               /\ \E r \in ResponsesRank :
                    /\ r.profile = inv'[p].profile
                    /\ Len(inv'[p].jobs) = Len(r.ids)
                    /\ \A k \in DOMAIN r.ids : \E m \in DOMAIN inv'[p].jobs :
                         /\ inv'[p].jobs[m].id = r.ids[k]
                         /\ inv'[p].jobs[m].score = scoreJob(Catalog[r.ids[k]], r.profile)
       /\ (inv[p].pc = "addSave" /\ inv'[p].pc # "addSave")
            => /\ inv[p].newJobs = SelectSeq(inv[p].jobs, PassesFilter)
               /\ NonIncreasing(inv[p].newJobs)
               /\ queueNow' = queueNow \o inv[p].newJobs
       /\ (inv[p].pc = "filterCompany" /\ inv'[p].pc = "idle")
            => SelectSeq(inv[p].jobs, PassesFilter) = <<>>]_vars

\* C26's case: a cycle has appended a batch that ends with a listing of
\* score 0, behind a listing of a greater score.
C26_Witness ==
  \E p \in Procs :
    /\ inv[p].pc = "pqSize"
    /\ inv[p].call = 2
    /\ Len(inv[p].newJobs) >= 2
    /\ inv[p].newJobs[Len(inv[p].newJobs)].score = 0
    /\ inv[p].newJobs[1].score > 0
    /\ Len(queueNow) >= Len(inv[p].newJobs)
    /\ SubSeq(queueNow, Len(queueNow) - Len(inv[p].newJobs) + 1, Len(queueNow)) = inv[p].newJobs

\* A listing with neither hrEmail nor decisionMakerEmail.
NoAddress(e) == ~Truthy(hrEmailOf(e)) /\ ~Truthy(dmEmailOf(e))

C25_FailedDiscoveryEndsCycle ==
  [][\A p \in Procs :
       (inv[p].pc = "analyze" /\ inv'[p].pc # "analyze")
       => /\ mainPc' # "exited"
          /\ queueFile' = queueFile
          /\ jobsFile' = jobsFile
          /\ attempts' = attempts
          /\ \/ /\ inv'[p] = Idle
                /\ inv[p].mode = "startup" => mainPc' = "scheduled"
                /\ inv[p].mode # "startup" => mainPc' = mainPc
             \/ /\ inv'[p].pc = "checkQueue"
                /\ inv'[p].profile.present
                /\ inv'[p].mode = inv[p].mode]_vars

\* C25's case: the startup run has ended before the queue, which holds
\* listings, was looked at, as it does when discovery fails; the triggers
\* are registered.
C25_Witness ==
  /\ mainPc = "scheduled"
  /\ triggers = 0
  /\ \A p \in Procs : inv[p] = Idle
  /\ attempts = <<>>
  /\ dbNow.jobs = <<>>
  /\ Len(queueNow) = 3

\* C27: every queue run that is entered returns; while it runs, its attempts
\* so far are one for each listing of the slice up to the current one, in
\* slice order, and when it returns there is exactly one attempt for each
\* listing of the slice, failed listings included: none is tried a second
\* time within the run.  The bound on attempts is never reached.
C27_RunTerminatesOnePass ==
  /\ [](\A p \in Procs :
          /\ Len(attempts) < MaxAttemptsLive
          /\ InRun(p) =>
               LET l == inv[p]
                   made == attemptsMade(p)
               IN  /\ made <= Len(attempts)
                   /\ \A n \in 1..made : lastAttempts(made)[n].job = l.jobsToProcess[n]
                   /\ l.pc = "pqReturn" =>
                        /\ made = Len(l.jobsToProcess)
                        /\ l.sentCount + l.failedCount = Len(l.jobsToProcess))
  /\ \A p \in Procs : (inv[p].pc = "pqSize") ~> (inv[p].pc = "pqReturn")

\* C27's case: a run over three listings has returned with every send
\* failed, three attempts made.
C27_Witness ==
  \E p \in Procs :
    /\ inv[p].pc = "pqReturn"
    /\ Len(inv[p].jobsToProcess) = 3
    /\ inv[p].failedCount = 3
    /\ inv[p].sentCount = 0
    /\ \A n \in 1..3 : ~lastAttempts(3)[n].ok
    /\ [n \in 1..3 |-> lastAttempts(3)[n].job] = inv[p].jobsToProcess

\* C28: the History never holds two sent records for the same lower-cased
\* company.
C28_OneSentRecordPerCompany ==
  \A m, n \in DOMAIN dbNow.jobs :
    (/\ m < n
     /\ dbNow.jobs[m].status = "sent"
     /\ dbNow.jobs[n].status = "sent")
    => toLowerCase(companyOf(dbNow.jobs[m])) # toLowerCase(companyOf(dbNow.jobs[n]))

\* C29: when MaxTriggers scheduled cycles have been triggered and have ended,
\* and as many full slices of the queue have been attempted, every listing that was queued when the process started
\* and is still in the queue has had a send attempt, whatever the outcome of
\* the attempts of the other listings.
C29_QueuedListingGetsAttempt ==
  (/\ mainPc = "scheduled"
   /\ triggers = MaxTriggers
   /\ \A p \in Procs : inv[p].pc = "idle"
   /\ Len(attempts) >= MAX_EMAILS_PER_RUN * MaxTriggers)
  => \A q \in InitQueuesStarve : \A n \in DOMAIN q :
       q[n] \in Range(queueNow) => \E m \in DOMAIN attempts : attempts[m].job = q[n]

\* C30: while the startup run is in progress main has not registered the
\* triggers, no trigger has fired and no other cycle runs; a scheduled cycle
\* runs only once the startup run has returned; and until verification has
\* completed, and after it has ended the process, no cycle runs and no send
\* attempt has been made, jobs.json existing from then on.
C30_StartupBeforeTriggers ==
  /\ \A p \in Procs :
       inv[p].mode = "startup" =>
         /\ mainPc = "startupRunning"
         /\ triggers = 0
         /\ \A q \in Procs \ {p} : inv[q] = Idle
  /\ \A p \in Procs : inv[p].mode = "scheduled" => mainPc = "scheduled"
  /\ mainPc \in {"verifySetup", "startup", "exited"} =>
         /\ attempts = <<>>
         /\ triggers = 0
         /\ \A p \in Procs : inv[p] = Idle
  /\ mainPc \in {"startup", "startupRunning", "scheduled"} => jobsFile.exists

\* C30's case: the startup run has made a send attempt and returned, and the
\* first scheduled cycle, triggered within the hour, is at a send of its own.
C30_Witness ==
  /\ mainPc = "scheduled"
  /\ triggers = 1
  /\ \E p \in Procs : inv[p].mode = "scheduled" /\ inv[p].pc = "send"
  /\ \E n \in DOMAIN ages : ages[n].mode = "startup"

====
